---------------------------- MODULE Spec2Model ----------------------------
(***************************************************************************)
(* udp-logger-rs: a log sink that filters records by per-target level      *)
(* rules, picks a source socket and a destination address by level tiers,  *)
(* encodes each record in one of two wire formats and sends it as one UDP  *)
(* datagram.  The model follows src/src/lib.rs.                            *)
(*                                                                         *)
(* Strings are sequences of Unicode code points; the bytes on the wire are *)
(* their UTF-8 encoding.  Sockets are named by the local address they are  *)
(* bound to.                                                               *)
(***************************************************************************)
EXTENDS Integers, Sequences, FiniteSets, TLC

VARIABLES
    logger,     \* per caller: the UdpLogger value it holds (builder state)
    pc,         \* per caller: where it is in new() ... init()
    LOG_STATE,  \* log crate: UNINITIALIZED / INITIALIZING / INITIALIZED
    LOGGER,     \* log crate: the boxed logger installed, or NoLogger
    MAX_LEVEL,  \* log crate: MAX_LOG_LEVEL_FILTER, read by max_level()
    call,       \* the last enabled()/log() call and what it did
    ncalls,     \* number of enabled()/log() calls made so far
    nsend,      \* number of send_to() calls made so far
    nprint,     \* number of "error sending payload" lines printed
    thread      \* per thread: where its call of the sink's log is, and its locals

vars ==
    <<logger, pc, LOG_STATE, LOGGER, MAX_LEVEL, call, ncalls, nsend, nprint, thread>>

-----------------------------------------------------------------------------
(* Levels: log::LevelFilter is Off..Trace, log::Level is Error..Trace.     *)

Off == 0
Error == 1
Warn == 2
Info == 3
Debug == 4
Trace == 5

LevelFilters == Off..Trace
Levels == Error..Trace

\* Level::to_level_filter: the filter of the same rank.
to_level_filter(level) == level

\* STATIC_MAX_LEVEL: no max_level_* feature is set, so it is Trace.
STATIC_MAX_LEVEL == Trace

-----------------------------------------------------------------------------
(* Strings.                                                                *)

SP == 32
EQ == 61
LBRACKET == 91
RBRACKET == 93
DASH == 45
COLON == 58
DOT == 46
ZERO == 48

S_empty == <<>>
S_a == <<97>>
S_b == <<98>>
S_ab == <<97, 98>>
S_abc == <<97, 98, 99>>
S_x == <<120>>
S_e_acute == <<233>>
S_test == <<116, 101, 115, 116>>
S_MyApp == <<77, 121, 65, 112, 112>>
S_key1 == <<107, 101, 121, 49>>
S_Key2 == <<75, 101, 121, 50>>
S_Value1 == <<86, 97, 108, 117, 101, 49>>
S_Value2 == <<86, 97, 108, 117, 101, 50>>

\* str::starts_with
starts_with(s, prefix) ==
    /\ Len(prefix) <= Len(s)
    /\ SubSeq(s, 1, Len(prefix)) = prefix

\* The UTF-8 encoding of one code point (up to three bytes are modelled).
Utf8Char(cp) ==
    IF cp < 128 THEN <<cp>>
    ELSE IF cp < 2048 THEN <<192 + (cp \div 64), 128 + (cp % 64)>>
    ELSE <<224 + (cp \div 4096), 128 + ((cp \div 64) % 64), 128 + (cp % 64)>>

RECURSIVE as_bytes(_)
\* str::as_bytes: the UTF-8 bytes of a string.
as_bytes(s) ==
    IF s = <<>> THEN <<>> ELSE Utf8Char(Head(s)) \o as_bytes(Tail(s))

\* Level's Display: the upper-case name.
LevelName(level) ==
    CASE level = Error -> <<69, 82, 82, 79, 82>>
      [] level = Warn -> <<87, 65, 82, 78>>
      [] level = Info -> <<73, 78, 70, 79>>
      [] level = Debug -> <<68, 69, 66, 85, 71>>
      [] level = Trace -> <<84, 82, 65, 67, 69>>

RECURSIVE Spaces(_)
Spaces(n) == IF n <= 0 THEN <<>> ELSE <<SP>> \o Spaces(n - 1)

\* Variant of PadLeftJustified: "{:>5}", right-justified.
PadRightJustified(s, width) == Spaces(width - Len(s)) \o s

\* format "{:<5}": left-justified, filled with spaces up to the width,
\* never cut.
PadLeftJustified(s, width) == s \o Spaces(width - Len(s))

RECURSIVE Digits(_, _)
\* A number as exactly `width` decimal digits, zero-filled.
Digits(n, width) ==
    IF width = 0 THEN <<>>
    ELSE Digits(n \div 10, width - 1) \o <<ZERO + (n % 10)>>

-----------------------------------------------------------------------------
(* Sorting and searching, as Vec::sort_by_key (a stable sort) and          *)
(* Iterator::find do them.                                                 *)

RECURSIVE InsertByKeyUnstable(_, _)
\* Variant of InsertByKey: x goes before the entries whose key equals its
\* own, as an unstable sort may put it.
InsertByKeyUnstable(x, sorted) ==
    IF sorted = <<>> THEN <<x>>
    ELSE IF sorted[1][1] < x[1]
         THEN <<sorted[1]>> \o InsertByKeyUnstable(x, Tail(sorted))
    ELSE <<x>> \o sorted

RECURSIVE InsertByKey(_, _)
\* x = <<key, item>> goes after every entry whose key is <= its own.
InsertByKey(x, sorted) ==
    IF sorted = <<>> THEN <<x>>
    ELSE IF sorted[1][1] <= x[1] THEN <<sorted[1]>> \o InsertByKey(x, Tail(sorted))
    ELSE <<x>> \o sorted

RECURSIVE StableSort(_)
StableSort(keyed) ==
    IF keyed = <<>> THEN <<>>
    ELSE InsertByKey(keyed[Len(keyed)], StableSort(SubSeq(keyed, 1, Len(keyed) - 1)))

\* s.sort_by_key(..), with keys[i] the key of s[i].
sort_by_key(s, keys) ==
    LET sorted == StableSort([i \in DOMAIN s |-> <<keys[i], s[i]>>])
    IN [i \in DOMAIN s |-> sorted[i][2]]

\* Iterator::find, with holds[i] the predicate's answer for the i-th
\* element: the index of the first element it holds for, 0 for None.
find(holds) ==
    LET hits == {i \in DOMAIN holds : holds[i]}
    IN IF hits = {} THEN 0 ELSE CHOOSE i \in hits : \A j \in hits : i <= j

-----------------------------------------------------------------------------
(* The UdpLogger builder.                                                  *)

Uncompressed == "Uncompressed"
ByteBuffer == "ByteBuffer"

ADDR_4000 == "127.0.0.1:4000"
ADDR_4010 == "127.0.0.1:4010"

\* UdpLogger::new
new ==
    [default_level |-> Trace,
     module_levels |-> <<>>,
     default_source |-> ADDR_4000,
     sources |-> <<>>,
     default_destination |-> ADDR_4010,
     destinations |-> <<>>,
     wire_fmt |-> Uncompressed]

with_level(self, level) == [self EXCEPT !.default_level = level]

\* Outside cfg(test) the rule is only pushed; init sorts.
with_module_level(self, target, level) ==
    [self EXCEPT !.module_levels = Append(@, <<target, level>>)]

with_source(self, source) == [self EXCEPT !.default_source = source]

with_source_level(self, source, level) ==
    [self EXCEPT !.sources = Append(@, <<level, source>>)]

with_destination(self, destination) ==
    [self EXCEPT !.default_destination = destination]

with_destination_level(self, destination, level) ==
    [self EXCEPT !.destinations = Append(@, <<level, destination>>)]

with_wire_fmt(self, wire_fmt) == [self EXCEPT !.wire_fmt = wire_fmt]

\* The local addresses a UdpLogger value holds bound sockets for.
SocketsOf(self) ==
    {self.default_source} \cup {self.sources[i][2] : i \in DOMAIN self.sources}

-----------------------------------------------------------------------------
(* Normalization: partial_init.                                            *)

\* The width of usize.  Rust fixes it per target (16, 32 or 64 bits); the
\* order of the sort keys below is the same for every width as long as the
\* names are shorter than 2^width, so the narrowest is taken.
UsizeBits == 16

\* usize::wrapping_neg: 0 - n modulo 2^width.
wrapping_neg(n) == ((2 ^ UsizeBits) - n) % (2 ^ UsizeBits)

\* The sort key of a module level: |(name, _level)| name.len().wrapping_neg()
ModuleLevelKey(entry) == wrapping_neg(Len(entry[1]))

\* Variant of TierKey: the most verbose tier first.
TierKeyDescending(entry) == Trace - entry[1]

\* The sort key of a tier: |(level, _socket)| *level
TierKey(entry) == entry[1]

Max(a, b) == IF a >= b THEN a ELSE b

\* The level partial_init hands to log::set_max_level.
partial_init_max_level(self) ==
    LET levels == {self.module_levels[i][2] : i \in DOMAIN self.module_levels}
    IN IF levels = {} THEN self.default_level
       ELSE Max(CHOOSE m \in levels : \A l \in levels : l <= m, self.default_level)

\* The UdpLogger partial_init returns.
partial_init(self) ==
    [self EXCEPT
        !.module_levels = sort_by_key(@, [i \in DOMAIN @ |-> ModuleLevelKey(@[i])]),
        !.sources = sort_by_key(@, [i \in DOMAIN @ |-> TierKey(@[i])]),
        !.destinations = sort_by_key(@, [i \in DOMAIN @ |-> TierKey(@[i])])]

-----------------------------------------------------------------------------
(* Log for UdpLogger: enabled.                                             *)

\* The threshold enabled compares with: the level of the first module level
\* whose name the target starts with, else the default level.
resolve(self, target) ==
    LET i == find([k \in DOMAIN self.module_levels |->
                      starts_with(target, self.module_levels[k][1])])
    IN IF i = 0 THEN self.default_level ELSE self.module_levels[i][2]

\* Variant of enabled: a strict comparison.
enabled_strict(self, target, level) ==
    to_level_filter(level) < resolve(self, target)

enabled(self, target, level) ==
    to_level_filter(level) <= resolve(self, target)

-----------------------------------------------------------------------------
(* Log for UdpLogger: log.                                                 *)

\* A log::Record: [level, target, module_path, args, key_values], where
\* key_values is a kv source [pairs, visits]: visit hands the first `visits`
\* pairs to the visitor and fails after them when `visits` < Len(pairs).

\* The socket chosen: the first source tier whose level >= the record's.
select_source(self, level) ==
    LET i == find([k \in DOMAIN self.sources |-> self.sources[k][1] >= level])
    IN IF i = 0 THEN self.default_source ELSE self.sources[i][2]

\* Variant of select_destination: the comparison turned around.
select_destination_reversed(self, level) ==
    LET i == find([k \in DOMAIN self.destinations |->
                      self.destinations[k][1] <= level])
    IN IF i = 0 THEN self.default_destination ELSE self.destinations[i][2]

\* The remote address chosen, in the same way.
select_destination(self, level) ==
    LET i == find([k \in DOMAIN self.destinations |->
                      self.destinations[k][1] >= level])
    IN IF i = 0 THEN self.default_destination ELSE self.destinations[i][2]

\* The target written: the record's, or its module path when that is empty.
log_target(record) ==
    IF record.target # <<>> THEN record.target ELSE record.module_path

\* KVAccumulator::visit_pair
visit_pair(acc, key, value) == acc \o <<SP>> \o key \o <<EQ>> \o value

RECURSIVE VisitPairs(_, _, _)
VisitPairs(acc, pairs, n) ==
    IF n = 0 \/ pairs = <<>> THEN acc
    ELSE VisitPairs(visit_pair(acc, pairs[1][1], pairs[1][2]), Tail(pairs), n - 1)

\* source.visit(&mut visitor): what the accumulator holds afterwards.
visit(source) == VisitPairs(<<>>, source.pairs, source.visits)

-----------------------------------------------------------------------------
(* The wire formats.  `now` is chrono::Utc::now() in milliseconds since    *)
(* the epoch, negative before it.                                          *)

MS_PER_DAY == 86400000

\* Utc::now().format("%Y-%m-%d %H:%M:%S%.3f").  Days are turned into a
\* calendar date for December 1969 and January 1970, which holds every
\* clock reading the model draws.
format_timestamp(now) ==
    LET days == now \div MS_PER_DAY
        ms_of_day == now % MS_PER_DAY
        year == IF days >= 0 THEN 1970 ELSE 1969
        month == IF days >= 0 THEN 1 ELSE 12
        day == IF days >= 0 THEN days + 1 ELSE 32 + days
        hour == ms_of_day \div 3600000
        minute == (ms_of_day \div 60000) % 60
        second == (ms_of_day \div 1000) % 60
        millis == ms_of_day % 1000
    IN Digits(year, 4) \o <<DASH>> \o Digits(month, 2) \o <<DASH>> \o Digits(day, 2)
       \o <<SP>> \o Digits(hour, 2) \o <<COLON>> \o Digits(minute, 2)
       \o <<COLON>> \o Digits(second, 2) \o <<DOT>> \o Digits(millis, 3)

\* WireFmt::Uncompressed: format!("{} {:<5} [{}] {}{}", ...).as_bytes()
uncompressed_payload(now, record, target, kvs) ==
    as_bytes(format_timestamp(now) \o <<SP>> \o PadLeftJustified(LevelName(record.level), 5)
             \o <<SP, LBRACKET>> \o target \o <<RBRACKET, SP>> \o record.args \o kvs)

RECURSIVE to_le_bytes(_, _)
\* Variant of to_be_bytes: least significant byte first.
to_le_bytes(v, n) ==
    IF n = 0 THEN <<>> ELSE <<v % 256>> \o to_le_bytes(v \div 256, n - 1)

RECURSIVE to_be_bytes(_, _)
\* The `n` low bytes of v in two's complement, most significant first.
to_be_bytes(v, n) ==
    IF n = 0 THEN <<>> ELSE to_be_bytes(v \div 256, n - 1) \o <<v % 256>>

\* The level byte of the ByteBuffer format.
level_byte(level) ==
    CASE level = Error -> 1
      [] level = Warn -> 2
      [] level = Info -> 3
      [] level = Debug -> 4
      [] level = Trace -> 5

\* ByteBuffer::write_string: the length as a big-endian u32, then the bytes.
write_string(text) ==
    LET bytes == as_bytes(text) IN to_be_bytes(Len(bytes), 4) \o bytes

\* WireFmt::ByteBuffer: the level, the timestamp as i64, the text.
byte_buffer_payload(now, record, target, kvs) ==
    <<level_byte(record.level)>> \o to_be_bytes(now, 8)
    \o write_string(<<LBRACKET>> \o target \o <<RBRACKET, SP>> \o record.args \o kvs)

\* The bytes handed to send_to.
encode(self, now, record) ==
    IF self.wire_fmt = Uncompressed
    THEN uncompressed_payload(now, record, log_target(record), visit(record.key_values))
    ELSE byte_buffer_payload(now, record, log_target(record), visit(record.key_values))

\* The send_to calls one log call makes: one, with the chosen socket, address
\* and payload.
log_sends(self, record, now) ==
    <<[socket |-> select_source(self, record.level),
       remote_addr |-> select_destination(self, record.level),
       payload |-> encode(self, now, record)]>>

\* Variant of log: the datagram is sent before enabled is asked.
log_send_first(self, record, now, send_ok) ==
    [path |-> IF enabled(self, record.target, record.level)
              THEN <<"Enabled", "Routed", "Encoded",
                     IF send_ok THEN "Sent" ELSE "SendFailed">>
              ELSE <<"Disabled">>,
     sends |-> log_sends(self, record, now),
     printed |-> IF send_ok THEN 0 ELSE 1,
     returned |-> TRUE]

\* Variant of log: a failed send_to is tried once more.
log_retry(self, record, now, send_ok) ==
    IF enabled(self, record.target, record.level)
    THEN [path |-> <<"Enabled", "Routed", "Encoded",
                     IF send_ok THEN "Sent" ELSE "SendFailed">>,
          sends |-> IF send_ok THEN log_sends(self, record, now)
                    ELSE log_sends(self, record, now) \o log_sends(self, record, now),
          printed |-> IF send_ok THEN 0 ELSE 1,
          returned |-> TRUE]
    ELSE [path |-> <<"Disabled">>, sends |-> <<>>, printed |-> 0, returned |-> TRUE]

\* Variant of log: a failed visit of the key-values ends the call.
log_visit_checked(self, record, now, send_ok) ==
    IF enabled(self, record.target, record.level)
    THEN IF record.key_values.visits < Len(record.key_values.pairs)
         THEN [path |-> <<"Enabled", "Routed">>, sends |-> <<>>, printed |-> 0,
               returned |-> TRUE]
         ELSE [path |-> <<"Enabled", "Routed", "Encoded",
                          IF send_ok THEN "Sent" ELSE "SendFailed">>,
               sends |-> log_sends(self, record, now),
               printed |-> IF send_ok THEN 0 ELSE 1,
               returned |-> TRUE]
    ELSE [path |-> <<"Disabled">>, sends |-> <<>>, printed |-> 0, returned |-> TRUE]

\* Log::log as a whole: the states the call goes through, the datagrams it
\* hands to send_to and the lines it prints.  send_ok is what send_to
\* returns: Ok or Err.
log(self, record, now, send_ok) ==
    IF enabled(self, record.target, record.level)
    THEN [path |-> <<"Enabled", "Routed", "Encoded",
                     IF send_ok THEN "Sent" ELSE "SendFailed">>,
          sends |-> log_sends(self, record, now),
          printed |-> IF send_ok THEN 0 ELSE 1,
          returned |-> TRUE]
    ELSE [path |-> <<"Disabled">>, sends |-> <<>>, printed |-> 0, returned |-> TRUE]

-----------------------------------------------------------------------------
(* The process: callers that build a UdpLogger and call init, the log      *)
(* crate's global logger, and calls of the installed sink.                 *)

Callers == {"A", "B"}

UNINITIALIZED == "UNINITIALIZED"
INITIALIZING == "INITIALIZING"
INITIALIZED == "INITIALIZED"

\* What log::logger() is before a logger is installed.
NoLogger == [owner |-> "none"]

NoCall == [op |-> "none"]

\* The bound on the number of enabled()/log() calls of one run.
MaxCalls == 2

\* A caller holds its UdpLogger (and the sockets in it) from new() until
\* init() fails and drops it; an installed one is never dropped.
Live(c) == pc[c] \in {"building", "normalized", "installing", "spinning", "ok"}

BoundAddrs == UNION {SocketsOf(logger[c]) : c \in {d \in Callers : Live(d)}}

\* UdpLogger::new(): binds 127.0.0.1:4000, and panics when that fails.
New(c) ==
    /\ pc[c] = "start"
    /\ IF ADDR_4000 \in BoundAddrs
       THEN pc' = [pc EXCEPT ![c] = "panicked"] /\ UNCHANGED logger
       ELSE /\ pc' = [pc EXCEPT ![c] = "building"]
            /\ logger' = [logger EXCEPT ![c] = new]
    /\ UNCHANGED <<LOG_STATE, LOGGER, MAX_LEVEL, call, ncalls, nsend, nprint, thread>>

\* A builder call that binds nothing.
Build(c, next) ==
    /\ pc[c] = "building"
    /\ logger' = [logger EXCEPT ![c] = next]
    /\ UNCHANGED <<pc, LOG_STATE, LOGGER, MAX_LEVEL, call, ncalls, nsend, nprint, thread>>

\* A builder call that binds `addr` first, and panics when that fails.
BuildBinding(c, addr, next) ==
    /\ pc[c] = "building"
    /\ IF addr \in BoundAddrs
       THEN pc' = [pc EXCEPT ![c] = "panicked"] /\ UNCHANGED logger
       ELSE /\ logger' = [logger EXCEPT ![c] = next]
            /\ UNCHANGED pc
    /\ UNCHANGED <<LOG_STATE, LOGGER, MAX_LEVEL, call, ncalls, nsend, nprint, thread>>

WithLevel(c, level) == Build(c, with_level(logger[c], level))

WithModuleLevel(c, target, level) ==
    Build(c, with_module_level(logger[c], target, level))

WithSource(c, source) == BuildBinding(c, source, with_source(logger[c], source))

WithSourceLevel(c, source, level) ==
    BuildBinding(c, source, with_source_level(logger[c], source, level))

WithDestination(c, destination) ==
    Build(c, with_destination(logger[c], destination))

WithDestinationLevel(c, destination, level) ==
    Build(c, with_destination_level(logger[c], destination, level))

WithWireFmt(c, wire_fmt) == Build(c, with_wire_fmt(logger[c], wire_fmt))

\* init, first half: partial_init sorts the lists and sets the process-wide
\* maximum level.
PartialInit(c) ==
    /\ pc[c] = "building"
    /\ logger' = [logger EXCEPT ![c] = partial_init(@)]
    /\ MAX_LEVEL' = partial_init_max_level(logger[c])
    /\ pc' = [pc EXCEPT ![c] = "normalized"]
    /\ UNCHANGED <<LOG_STATE, LOGGER, call, ncalls, nsend, nprint, thread>>

\* Variant of SetLoggerCas: the state is set without being compared.
SetLoggerNoCas(c) ==
    /\ pc[c] = "normalized"
    /\ LOG_STATE' = INITIALIZING
    /\ pc' = [pc EXCEPT ![c] = "installing"]
    /\ UNCHANGED <<logger, LOGGER, MAX_LEVEL, call, ncalls, nsend, nprint, thread>>

\* init, second half: log::set_boxed_logger.  Its compare_exchange of the
\* state from UNINITIALIZED to INITIALIZING decides who installs.
SetLoggerCas(c) ==
    /\ pc[c] = "normalized"
    /\ CASE LOG_STATE = UNINITIALIZED ->
              /\ LOG_STATE' = INITIALIZING
              /\ pc' = [pc EXCEPT ![c] = "installing"]
         [] LOG_STATE = INITIALIZING ->
              /\ pc' = [pc EXCEPT ![c] = "spinning"]
              /\ UNCHANGED LOG_STATE
         [] OTHER ->
              /\ pc' = [pc EXCEPT ![c] = "err"]
              /\ UNCHANGED LOG_STATE
    /\ UNCHANGED <<logger, LOGGER, MAX_LEVEL, call, ncalls, nsend, nprint, thread>>

\* The winner stores its logger and publishes INITIALIZED; init returns Ok.
SetLoggerStore(c) ==
    /\ pc[c] = "installing"
    /\ LOGGER' = [owner |-> c, sink |-> logger[c]]
    /\ LOG_STATE' = INITIALIZED
    /\ pc' = [pc EXCEPT ![c] = "ok"]
    /\ UNCHANGED <<logger, MAX_LEVEL, call, ncalls, nsend, nprint, thread>>

\* A loser that found INITIALIZING spins until the winner is done, and then
\* init returns Err(SetLoggerError).
SpinExit(c) ==
    /\ pc[c] = "spinning"
    /\ LOG_STATE # INITIALIZING
    /\ pc' = [pc EXCEPT ![c] = "err"]
    /\ UNCHANGED <<logger, LOG_STATE, LOGGER, MAX_LEVEL, call, ncalls, nsend, nprint, thread>>

\* What a log call leaves behind: how it was made, whether it got to the
\* installed sink's log, what max_level() was at the time, and what it did.
Record(entry, reached, record, now, send_ok, out) ==
    /\ out.sends = <<>> => send_ok      \* send_to answers only when called
    /\ call' = [op |-> "log", entry |-> entry, reached |-> reached,
                max_level |-> MAX_LEVEL, record |-> record, now |-> now,
                send_ok |-> send_ok, out |-> out]
    /\ ncalls' = ncalls + 1
    /\ nsend' = nsend + Len(out.sends)
    /\ nprint' = nprint + out.printed
    /\ UNCHANGED <<logger, pc, LOG_STATE, LOGGER, MAX_LEVEL, thread>>

\* What the macros do when their level check fails, and what the log
\* crate's no-op logger does.
Nothing == [path |-> <<>>, sends |-> <<>>, printed |-> 0, returned |-> TRUE]


\* Log::enabled called on the installed sink.
SinkEnabled(target, level) ==
    /\ LOG_STATE = INITIALIZED
    /\ call' = [op |-> "enabled", entry |-> "sink", max_level |-> MAX_LEVEL,
                target |-> target, level |-> level,
                result |-> enabled(LOGGER.sink, target, level)]
    /\ UNCHANGED <<logger, pc, LOG_STATE, LOGGER, MAX_LEVEL, ncalls, nsend, nprint, thread>>

\* Log::log called on the installed sink (log::logger().log(&record)).
SinkLog(record, now, send_ok) ==
    /\ LOG_STATE = INITIALIZED
    /\ ncalls < MaxCalls
    /\ Record("sink", TRUE, record, now, send_ok,
              log(LOGGER.sink, record, now, send_ok))

\* log!(target: ..., kvs: ..., lvl, ...): the level check against
\* STATIC_MAX_LEVEL and max_level(), then __private_api_log, which calls
\* log::logger().log(&record): the installed sink, or the no-op logger.
MacroLog(record, now, send_ok) ==
    /\ ncalls < MaxCalls
    /\ LET passes == record.level <= STATIC_MAX_LEVEL /\ record.level <= MAX_LEVEL
       IN Record("macro", passes /\ LOG_STATE = INITIALIZED, record, now, send_ok,
                 IF passes
                 THEN IF LOG_STATE = INITIALIZED
                      THEN log(LOGGER.sink, record, now, send_ok)
                      ELSE Nothing
                 ELSE Nothing)

-----------------------------------------------------------------------------
(* Log::log of the installed sink, called by threads side by side.  Each   *)
(* call runs on its caller's thread with its own locals; a step is one of  *)
(* the stages of log, and the steps of the threads interleave.             *)

Threads == {"T1", "T2"}

Idle == [pc |-> "idle"]

\* A step of thread t that leaves everything but its own locals alone.
ThreadStep(t, locals) ==
    /\ thread' = [thread EXCEPT ![t] = locals]
    /\ UNCHANGED <<logger, pc, LOG_STATE, LOGGER, MAX_LEVEL, call, ncalls, nsend, nprint>>

\* log::logger().log(&record) is entered.
LogCall(t, record) ==
    /\ LOG_STATE = INITIALIZED
    /\ thread[t].pc \in {"idle", "returned"}
    /\ ncalls < MaxCalls
    /\ thread' = [thread EXCEPT ![t] = [pc |-> "called", record |-> record]]
    /\ ncalls' = ncalls + 1
    /\ UNCHANGED <<logger, pc, LOG_STATE, LOGGER, MAX_LEVEL, call, nsend, nprint>>

\* if self.enabled(record.metadata()): a record filtered out ends the call.
LogEnabled(t) ==
    /\ thread[t].pc = "called"
    /\ LET record == thread[t].record
       IN IF enabled(LOGGER.sink, record.target, record.level)
          THEN ThreadStep(t, [pc |-> "enabled", record |-> record])
          ELSE ThreadStep(t, [pc |-> "returned", record |-> record,
                                 out |-> [path |-> <<"Disabled">>, sends |-> <<>>,
                                          printed |-> 0, returned |-> TRUE]])

\* Variant of LogRoute: the socket chosen is kept in the sink as the one to
\* fall back to.
LogRouteCached(t) ==
    /\ thread[t].pc = "enabled"
    /\ LET record == thread[t].record
           socket == select_source(LOGGER.sink, record.level)
       IN /\ thread' = [thread EXCEPT ![t] =
                           [pc |-> "routed", record |-> record, socket |-> socket,
                            remote_addr |-> select_destination(LOGGER.sink, record.level)]]
          /\ LOGGER' = [LOGGER EXCEPT !.sink.default_source = socket]
    /\ UNCHANGED <<logger, pc, LOG_STATE, MAX_LEVEL, call, ncalls, nsend, nprint>>

\* let socket = ...; let remote_addr = ...;
LogRoute(t) ==
    /\ thread[t].pc = "enabled"
    /\ LET record == thread[t].record
       IN ThreadStep(t, [pc |-> "routed", record |-> record,
                            socket |-> select_source(LOGGER.sink, record.level),
                            remote_addr |-> select_destination(LOGGER.sink, record.level)])

\* let target = ...; source.visit(&mut visitor);
LogRender(t) ==
    /\ thread[t].pc = "routed"
    /\ LET my == thread[t]
       IN ThreadStep(t, [pc |-> "rendered", record |-> my.record, socket |-> my.socket,
                            remote_addr |-> my.remote_addr,
                            target |-> log_target(my.record),
                            visitor |-> visit(my.record.key_values)])

\* match self.wire_fmt: the clock is read and the payload is made.
LogEncode(t, now) ==
    /\ thread[t].pc = "rendered"
    /\ LET my == thread[t]
       IN ThreadStep(t, [pc |-> "encoded", record |-> my.record, socket |-> my.socket,
                            remote_addr |-> my.remote_addr, now |-> now,
                            payload |->
                                IF LOGGER.sink.wire_fmt = Uncompressed
                                THEN uncompressed_payload(now, my.record, my.target,
                                                          my.visitor)
                                ELSE byte_buffer_payload(now, my.record, my.target,
                                                         my.visitor)])

\* socket.send_to(payload, remote_addr), the line printed when it fails,
\* and the return.
LogSend(t, send_ok) ==
    /\ thread[t].pc = "encoded"
    /\ LET my == thread[t]
       IN thread' = [thread EXCEPT ![t] =
                        [pc |-> "returned", record |-> my.record, now |-> my.now,
                         send_ok |-> send_ok,
                         out |-> [path |-> <<"Enabled", "Routed", "Encoded",
                                             IF send_ok THEN "Sent" ELSE "SendFailed">>,
                                  sends |-> <<[socket |-> my.socket,
                                               remote_addr |-> my.remote_addr,
                                               payload |-> my.payload]>>,
                                  printed |-> IF send_ok THEN 0 ELSE 1,
                                  returned |-> TRUE]]]
    /\ nsend' = nsend + 1
    /\ nprint' = nprint + (IF send_ok THEN 0 ELSE 1)
    /\ UNCHANGED <<logger, pc, LOG_STATE, LOGGER, MAX_LEVEL, call, ncalls>>

-----------------------------------------------------------------------------
(* Inputs.                                                                 *)

NoKvs == [pairs |-> <<>>, visits |-> 0]

\* A Vec of pairs, visited to its end.
Kvs(pairs) == [pairs |-> pairs, visits |-> Len(pairs)]

TestKvs == Kvs(<<<<S_key1, S_Value1>>, <<S_Key2, S_Value2>>>>)

MakeRecord(level, target, args, key_values) ==
    [level |-> level, target |-> target, module_path |-> S_test,
     args |-> args, key_values |-> key_values]

\* The bound on the number of module levels a builder is given.
MaxRules == 2

\* The bound on the number of tiers of one list a builder is given.
MaxTiers == 2

Prefixes == {S_empty, S_a, S_b, S_ab}
RuleLevels == {Off, Warn, Trace}
Categories == {S_empty, S_a, S_b, S_ab, S_abc}

ADDR_S0 == "127.0.0.1:4040"
ADDR_S1 == "127.0.0.1:4070"
ADDR_S2 == "127.0.0.1:4080"
ADDR_D0 == "127.0.0.1:4041"
ADDR_D1 == "127.0.0.1:4071"
ADDR_D2 == "127.0.0.1:4081"
TierLevels == {Off, Warn, Info, Trace}

-----------------------------------------------------------------------------
(* SpecFilter: one caller builds a rule set, installs it and asks enabled. *)

InitOne ==
    /\ logger = [c \in Callers |-> new]
    /\ pc = [c \in Callers |-> "start"]
    /\ LOG_STATE = UNINITIALIZED
    /\ LOGGER = NoLogger
    /\ MAX_LEVEL = Off
    /\ call = NoCall
    /\ ncalls = 0
    /\ nsend = 0
    /\ nprint = 0
    /\ thread = [t \in Threads |-> Idle]

Install(c) == PartialInit(c) \/ SetLoggerCas(c) \/ SetLoggerStore(c)

NextFilter ==
    \/ New("A")
    \/ \E level \in LevelFilters : WithLevel("A", level)
    \/ \E target \in Prefixes, level \in RuleLevels :
          /\ Len(logger["A"].module_levels) < MaxRules
          /\ WithModuleLevel("A", target, level)
    \/ Install("A")
    \/ \E target \in Categories, level \in Levels : SinkEnabled(target, level)

SpecFilter == InitOne /\ [][NextFilter]_vars

-----------------------------------------------------------------------------
(* Level filtering (C1, C3), under SpecFilter.                             *)

Installed == LOG_STATE = INITIALIZED

DistinctLengths(rules) ==
    \A i, j \in DOMAIN rules : i # j => Len(rules[i][1]) # Len(rules[j][1])

\* The level of the rule with the longest name the category starts with,
\* the default level when there is none.
LongestPrefixLevel(rules, default_level, category) ==
    LET matching == {i \in DOMAIN rules : starts_with(category, rules[i][1])}
    IN IF matching = {} THEN default_level
       ELSE LET best == CHOOSE i \in matching :
                           \A j \in matching : Len(rules[j][1]) <= Len(rules[i][1])
            IN rules[best][2]

\* C1: for an installed (normalized) rule set whose names have pairwise
\* distinct lengths, the threshold enabled uses for a category is the level
\* of the longest rule name the category starts with, and the default level
\* when no rule name matches.
C1_LongestPrefix ==
    (Installed /\ DistinctLengths(LOGGER.sink.module_levels)) =>
        \A category \in Categories :
            resolve(LOGGER.sink, category)
                = LongestPrefixLevel(LOGGER.sink.module_levels,
                                     LOGGER.sink.default_level, category)

\* C3: an enabled(level) call on the sink answers TRUE exactly when the level
\* is no more verbose than the threshold resolved for the category; so every
\* level more severe than an enabled one is enabled, and a threshold of Off
\* enables nothing.
C3_MonotonicFiltering ==
    Installed =>
        /\ call.op = "enabled" =>
              (call.result <=> call.level <= resolve(LOGGER.sink, call.target))
        /\ \A category \in Categories, level \in Levels :
              /\ enabled(LOGGER.sink, category, level) =>
                    \A severer \in Levels :
                        severer < level => enabled(LOGGER.sink, category, severer)
              /\ resolve(LOGGER.sink, category) = Off =>
                    ~enabled(LOGGER.sink, category, level)

\* A Warn threshold that came from a rule let Warn through and answered an
\* Info query with FALSE.
C3_Witness ==
    /\ Installed
    /\ call.op = "enabled"
    /\ call.level = Info
    /\ ~call.result
    /\ resolve(LOGGER.sink, call.target) = Warn
    /\ LOGGER.sink.default_level = Trace
    /\ enabled(LOGGER.sink, call.target, Warn)

-----------------------------------------------------------------------------
(* SpecTiers: one caller builds source and destination tiers, installs the *)
(* sink and logs one record.                                               *)

TierRecords == {MakeRecord(level, S_a, S_x, NoKvs) : level \in Levels}

NextTiers ==
    \/ New("A")
    \/ WithSource("A", ADDR_S0)
    \/ WithDestination("A", ADDR_D0)
    \/ \E source \in {ADDR_S1, ADDR_S2}, level \in TierLevels :
          /\ Len(logger["A"].sources) < MaxTiers
          /\ WithSourceLevel("A", source, level)
    \/ \E destination \in {ADDR_D1, ADDR_D2}, level \in TierLevels :
          /\ Len(logger["A"].destinations) < MaxTiers
          /\ WithDestinationLevel("A", destination, level)
    \/ Install("A")
    \/ \E record \in TierRecords :
          /\ ncalls = 0
          /\ SinkLog(record, 0, TRUE)

SpecTiers == InitOne /\ [][NextTiers]_vars

-----------------------------------------------------------------------------
(* SpecWire: one caller picks a wire format, installs the sink and logs    *)
(* one record at one clock reading.                                        *)

\* A source that fails after its first pair.
FailingKvs == [pairs |-> TestKvs.pairs, visits |-> 1]

\* A source that fails before its first pair.
FailingAtOnce == [pairs |-> TestKvs.pairs, visits |-> 0]

WireRecords ==
    {MakeRecord(level, target, args, key_values) :
        level \in Levels, target \in {S_empty, S_test, S_MyApp, S_e_acute},
        args \in {S_x, S_e_acute \o S_ab}, key_values \in {NoKvs, TestKvs, FailingKvs, FailingAtOnce}}

\* Clock readings in milliseconds: before the epoch, the epoch, the last
\* millisecond of its first day, and some days later.
Clock == {-1, 0, 86399999, 1628534510}

NextWire ==
    \/ New("A")
    \/ \E wire_fmt \in {Uncompressed, ByteBuffer} : WithWireFmt("A", wire_fmt)
    \/ Install("A")
    \/ \E record \in WireRecords, now \in Clock, send_ok \in BOOLEAN :
          /\ ncalls = 0
          /\ SinkLog(record, now, send_ok)

SpecWire == InitOne /\ [][NextWire]_vars

-----------------------------------------------------------------------------
(* Spec: two callers, each holding a built UdpLogger, call init in any     *)
(* interleaving; records are logged through the macros and through the     *)
(* sink at any time.                                                       *)

SpecBases ==
    {new,
     with_module_level(with_level(new, Info), S_a, Trace),
     with_wire_fmt(with_destination_level(with_level(new, Error), ADDR_D1, Info),
                   ByteBuffer)}

\* Two loggers exist side by side only with different sockets, as bind fails
\* on an address in use: A's was moved off 127.0.0.1:4000 by with_source
\* before B's was made.
SpecLoggers ==
    {f \in [Callers -> SpecBases \cup {with_source(base, ADDR_S0) : base \in SpecBases}] :
        f["A"].default_source = ADDR_S0 /\ f["B"].default_source = ADDR_4000}

SpecRecords ==
    {MakeRecord(level, target, S_x, NoKvs) : level \in Levels, target \in {S_a, S_b}}

Init ==
    /\ logger \in SpecLoggers
    /\ pc = [c \in Callers |-> "building"]
    /\ LOG_STATE = UNINITIALIZED
    /\ LOGGER = NoLogger
    /\ MAX_LEVEL = Off
    /\ call = NoCall
    /\ ncalls = 0
    /\ nsend = 0
    /\ nprint = 0
    /\ thread = [t \in Threads |-> Idle]

Next ==
    \/ \E c \in Callers : Install(c) \/ SpinExit(c)
    \/ \E target \in {S_a, S_b}, level \in Levels : SinkEnabled(target, level)
    \/ \E record \in SpecRecords, send_ok \in BOOLEAN : SinkLog(record, 0, send_ok)
    \/ \E record \in SpecRecords, send_ok \in BOOLEAN : MacroLog(record, 0, send_ok)

Spec == Init /\ [][Next]_vars

-----------------------------------------------------------------------------
(* SpecThreads: a caller installs its sink, and two threads call the       *)
(* sink's log side by side.                                                *)

ThreadBases ==
    {with_destination_level(with_source_level(new, ADDR_S1, Warn), ADDR_D1, Warn),
     with_wire_fmt(with_module_level(with_level(new, Info), S_a, Trace), ByteBuffer)}

ThreadRecords ==
    {MakeRecord(level, target, S_x, NoKvs) : level \in {Warn, Debug}, target \in {S_a, S_b}}

ThreadClock == {0, 1}

InitThreads ==
    /\ logger \in {f \in [Callers -> ThreadBases \cup {new}] :
                      f["A"] \in ThreadBases /\ f["B"] = new}
    /\ pc = [c \in Callers |-> IF c = "A" THEN "building" ELSE "start"]
    /\ LOG_STATE = UNINITIALIZED
    /\ LOGGER = NoLogger
    /\ MAX_LEVEL = Off
    /\ call = NoCall
    /\ ncalls = 0
    /\ nsend = 0
    /\ nprint = 0
    /\ thread = [t \in Threads |-> Idle]

NextThreads ==
    \/ Install("A")
    \/ \E t \in Threads :
          \/ \E record \in ThreadRecords : LogCall(t, record)
          \/ LogEnabled(t)
          \/ LogRoute(t)
          \/ LogRender(t)
          \/ \E now \in ThreadClock : LogEncode(t, now)
          \/ \E send_ok \in BOOLEAN : LogSend(t, send_ok)

SpecThreads == InitThreads /\ [][NextThreads]_vars

-----------------------------------------------------------------------------
(* SpecCategory: one caller registers rules, some of them for the module   *)
(* the records come from, picks a wire format, installs the sink and logs  *)
(* one record, with a target or with an empty one.                         *)

CategoryPrefixes == {S_empty, S_test, S_MyApp}

\* MakeRecord gives every record the module path "test".
CategoryRecords ==
    {MakeRecord(level, target, S_x, NoKvs) :
        level \in {Error, Info}, target \in {S_empty, S_test, S_MyApp}}

NextCategory ==
    \/ New("A")
    \/ \E level \in {Off, Trace} : WithLevel("A", level)
    \/ \E target \in CategoryPrefixes, level \in RuleLevels :
          /\ Len(logger["A"].module_levels) < MaxRules
          /\ WithModuleLevel("A", target, level)
    \/ \E wire_fmt \in {Uncompressed, ByteBuffer} : WithWireFmt("A", wire_fmt)
    \/ Install("A")
    \/ \E record \in CategoryRecords :
          /\ ncalls = 0
          /\ SinkLog(record, 0, TRUE)

SpecCategory == InitOne /\ [][NextCategory]_vars

-----------------------------------------------------------------------------
(* Tier selection (C2), under SpecTiers.                                   *)

\* `chosen` is the endpoint of a tier of the least threshold among those
\* with threshold >= level, and the default when no tier has one.
TierChoice(tiers, default, level, chosen) ==
    LET covering == {i \in DOMAIN tiers : tiers[i][1] >= level}
    IN IF covering = {} THEN chosen = default
       ELSE \E i \in covering :
               /\ \A j \in covering : tiers[i][1] <= tiers[j][1]
               /\ chosen = tiers[i][2]

\* C2: the socket and the remote address of a logged record are, each for
\* its own list, those of the tier with the least threshold >= the record's
\* level, and the list's default when there is none; with no tiers every
\* level uses the default, and a single tier at Info takes Error, Warn and
\* Info and leaves Debug and Trace to the default.
C2_TierCoverage ==
    Installed =>
        LET sink == LOGGER.sink IN
        /\ (call.op = "log" /\ call.out.sends # <<>>) =>
              /\ TierChoice(sink.sources, sink.default_source,
                            call.record.level, call.out.sends[1].socket)
              /\ TierChoice(sink.destinations, sink.default_destination,
                            call.record.level, call.out.sends[1].remote_addr)
        /\ \A level \in Levels :
              /\ TierChoice(sink.sources, sink.default_source, level,
                            select_source(sink, level))
              /\ TierChoice(sink.destinations, sink.default_destination, level,
                            select_destination(sink, level))
              /\ sink.sources = <<>> => select_source(sink, level) = sink.default_source
              /\ sink.destinations = <<>> =>
                    select_destination(sink, level) = sink.default_destination
              /\ (Len(sink.destinations) = 1 /\ sink.destinations[1][1] = Info) =>
                    select_destination(sink, level)
                        = IF level <= Info THEN sink.destinations[1][2]
                          ELSE sink.default_destination
              /\ (Len(sink.sources) = 1 /\ sink.sources[1][1] = Info) =>
                    select_source(sink, level)
                        = IF level <= Info THEN sink.sources[1][2]
                          ELSE sink.default_source

\* A Warn record went out on the Warn tier of two destination tiers given
\* as (Trace, Warn), from the single source tier at Info.
C2_Witness ==
    /\ Installed
    /\ logger["A"].sources = <<<<Info, ADDR_S1>>>>
    /\ LOGGER.sink.destinations = <<<<Warn, ADDR_D2>>, <<Trace, ADDR_D1>>>>
    /\ call.op = "log"
    /\ call.record.level = Warn
    /\ call.out.sends = <<[socket |-> ADDR_S1, remote_addr |-> ADDR_D2,
                           payload |-> call.out.sends[1].payload]>>

-----------------------------------------------------------------------------
(* Installation (C4, C5), under Spec.                                      *)

AtMostOneOk == Cardinality({c \in Callers : pc[c] = "ok"}) <= 1

\* The installed sink is the winner's, as the winner normalized it.
InstalledIsWinners ==
    Installed => (pc[LOGGER.owner] = "ok" /\ LOGGER.sink = logger[LOGGER.owner])

\* An installed sink is not replaced.
NeverReplaced == Installed => (Installed' /\ LOGGER' = LOGGER)

\* A set_boxed_logger that starts when a sink is installed ends in Err.
LateAttemptFails ==
    \A c \in Callers :
        (Installed /\ pc[c] = "normalized" /\ pc'[c] # pc[c]) => pc'[c] = "err"

\* C4: in every interleaving of the callers' init calls at most one returns
\* Ok; an init that reaches set_boxed_logger when a sink is installed
\* returns Err; the installed sink is the first one's and is never replaced.
C4_SingleInstall ==
    /\ [](AtMostOneOk /\ InstalledIsWinners)
    /\ [][NeverReplaced /\ LateAttemptFails]_vars

\* B installed its logger and A's init returned Err: the sink is B's.
C4_Witness ==
    /\ pc["B"] = "ok"
    /\ pc["A"] = "err"
    /\ LOGGER.owner = "B"
    /\ LOGGER.sink # logger["A"]

\* C5: once a sink is installed no step changes the process-wide maximum
\* level, nor the installed default level, rules, tiers and wire format.
C5_FrozenAfterInstall ==
    [][Installed => (MAX_LEVEL' = MAX_LEVEL /\ LOGGER' = LOGGER)]_vars


-----------------------------------------------------------------------------
(* The log call (C6, C7, C8), under Spec.                                  *)

\* The last call was a log call that got to the installed sink's log.
SinkReached == call.op = "log" /\ call.reached

\* The threshold the installed sink resolves for the last call's target
\* lets the call's level through.
LastCallPermitted == call.record.level <= resolve(LOGGER.sink, call.record.target)

\* C6: a log call whose record is filtered out ends in Disabled: no routing,
\* no encoding, no send_to, nothing printed, and the number of send attempts
\* is the one before the call.
C6_DisabledDoesNothing ==
    /\ []((SinkReached /\ ~LastCallPermitted) =>
            /\ call.out.path = <<"Disabled">>
            /\ call.out.sends = <<>>
            /\ call.out.printed = 0)
    /\ [][(ncalls' = ncalls + 1 /\ SinkReached' /\ ~LastCallPermitted') =>
            (nsend' = nsend /\ nprint' = nprint)]_vars

\* After one datagram was sent, a second record was filtered out by the
\* sink and left the count at one.
C6_Witness ==
    /\ call.op = "log"
    /\ call.entry = "sink"
    /\ ~LastCallPermitted
    /\ call.out.path = <<"Disabled">>
    /\ ncalls = 2
    /\ nsend = 1

\* C7: a log call whose record is enabled hands send_to exactly one
\* datagram, the encoding of that record for the chosen socket and address;
\* when send_to fails the call ends in SendFailed, prints one line, sends
\* nothing more and returns; it changes nothing a later call reads, so a
\* later call does what it does without the failure.
C7_OneSendNoRetry ==
    /\ []((SinkReached /\ LastCallPermitted) =>
            /\ call.out.sends = <<[socket |-> select_source(LOGGER.sink, call.record.level),
                                   remote_addr |-> select_destination(LOGGER.sink,
                                                                      call.record.level),
                                   payload |-> encode(LOGGER.sink, call.now, call.record)]>>
            /\ call.out.path = <<"Enabled", "Routed", "Encoded",
                                 IF call.send_ok THEN "Sent" ELSE "SendFailed">>
            /\ call.out.printed = (IF call.send_ok THEN 0 ELSE 1)
            /\ call.out.returned)
    /\ [][(ncalls' = ncalls + 1) =>
            /\ LOGGER' = LOGGER /\ LOG_STATE' = LOG_STATE /\ MAX_LEVEL' = MAX_LEVEL
            /\ (SinkReached' /\ LastCallPermitted') =>
                  /\ nsend' = nsend + 1
                  /\ nprint' = nprint + (IF call'.send_ok THEN 0 ELSE 1)]_vars

\* The first record's send failed and was printed; the second record was
\* sent.
C7_Witness ==
    /\ SinkReached
    /\ ncalls = 2
    /\ nsend = 2
    /\ nprint = 1
    /\ call.out.path = <<"Enabled", "Routed", "Encoded", "Sent">>

\* C8: the sink's enabled answers TRUE exactly when the level is within the
\* process-wide maximum level of the moment and within the threshold
\* resolved for the target, and a record is sent only when both hold,
\* whether it comes through the macro or through the sink's log.
C8_CeilingAndThreshold ==
    Installed =>
        /\ call.op = "enabled" =>
              (call.result <=> /\ call.level <= call.max_level
                               /\ call.level <= resolve(LOGGER.sink, call.target))
        /\ (call.op = "log" /\ call.out.sends # <<>>) =>
              /\ call.record.level <= call.max_level
              /\ call.record.level <= resolve(LOGGER.sink, call.record.target)


-----------------------------------------------------------------------------
(* The wire formats (C9, C10), under SpecWire.                             *)

RECURSIVE FromBeUnsigned(_)
\* The unsigned number big-endian bytes stand for.
FromBeUnsigned(bytes) ==
    IF bytes = <<>> THEN 0
    ELSE FromBeUnsigned(SubSeq(bytes, 1, Len(bytes) - 1)) * 256 + bytes[Len(bytes)]

RECURSIVE FromBeSignedFrom(_, _)
FromBeSignedFrom(acc, bytes) ==
    IF bytes = <<>> THEN acc ELSE FromBeSignedFrom(acc * 256 + Head(bytes), Tail(bytes))

\* The two's complement number big-endian bytes stand for.
FromBeSigned(bytes) ==
    FromBeSignedFrom(IF bytes[1] >= 128 THEN bytes[1] - 256 ELSE bytes[1], Tail(bytes))

RECURSIVE Utf8Decode(_)
\* The code points UTF-8 bytes stand for (sequences of up to three bytes).
Utf8Decode(bytes) ==
    IF bytes = <<>> THEN <<>>
    ELSE IF bytes[1] < 128 THEN <<bytes[1]>> \o Utf8Decode(Tail(bytes))
    ELSE IF bytes[1] < 224
         THEN <<(bytes[1] - 192) * 64 + (bytes[2] - 128)>>
              \o Utf8Decode(SubSeq(bytes, 3, Len(bytes)))
    ELSE <<(bytes[1] - 224) * 4096 + (bytes[2] - 128) * 64 + (bytes[3] - 128)>>
         \o Utf8Decode(SubSeq(bytes, 4, Len(bytes)))

RECURSIVE Rendered(_)
\* " key=value" for each pair, in order.
Rendered(pairs) ==
    IF pairs = <<>> THEN <<>>
    ELSE <<SP>> \o pairs[1][1] \o <<EQ>> \o pairs[1][2] \o Rendered(Tail(pairs))

\* The pairs the last call's attribute source handed over.
LastCallPairs ==
    SubSeq(call.record.key_values.pairs, 1, call.record.key_values.visits)

\* The category written for the last call: its target, or the module path
\* for an empty target.
LastCallCategory ==
    IF call.record.target # <<>> THEN call.record.target ELSE call.record.module_path

\* "[<category>] <message><rendered-attributes>" of the last call.
LastCallText ==
    <<LBRACKET>> \o LastCallCategory \o <<RBRACKET, SP>> \o call.record.args
    \o Rendered(LastCallPairs)

LastCallSent(wire_fmt) ==
    /\ SinkReached
    /\ LOGGER.sink.wire_fmt = wire_fmt
    /\ call.out.sends # <<>>

\* C9: a ByteBuffer datagram is 13 + N bytes: the severity code (Error = 1
\* ... Trace = 5), the timestamp as a big-endian signed 64-bit number, N as
\* a big-endian unsigned 32-bit number, and the N bytes of the text
\* "[<category>] <message><rendered-attributes>"; decoding gives back the
\* severity, the timestamp and the text.
C9_BinaryFrame ==
    LastCallSent(ByteBuffer) =>
        LET frame == call.out.sends[1].payload
            N == Len(frame) - 13
        IN /\ N >= 0
           /\ \A i \in DOMAIN frame : frame[i] \in 0..255
           /\ frame[1] = (CASE call.record.level = Error -> 1
                            [] call.record.level = Warn -> 2
                            [] call.record.level = Info -> 3
                            [] call.record.level = Debug -> 4
                            [] call.record.level = Trace -> 5)
           /\ FromBeSigned(SubSeq(frame, 2, 9)) = call.now
           /\ FromBeUnsigned(SubSeq(frame, 10, 13)) = N
           /\ Utf8Decode(SubSeq(frame, 14, Len(frame))) = LastCallText

\* An Error record "x" for MyApp without attributes, 1628534510 ms after
\* the epoch: 1, the timestamp, 9, "[MyApp] x".
C9_Witness ==
    /\ LastCallSent(ByteBuffer)
    /\ call.record.level = Error
    /\ call.out.sends[1].payload
         = <<1, 0, 0, 0, 0, 97, 17, 118, 238, 0, 0, 0, 9,
             91, 77, 121, 65, 112, 112, 93, 32, 120>>

\* The level field of the text format.
LevelField(level) ==
    CASE level = Error -> <<69, 82, 82, 79, 82>>
      [] level = Warn -> <<87, 65, 82, 78, 32>>
      [] level = Info -> <<73, 78, 70, 79, 32>>
      [] level = Debug -> <<68, 69, 66, 85, 71>>
      [] level = Trace -> <<84, 82, 65, 67, 69>>

\* YYYY-MM-DD HH:MM:SS.mmm
IsTimestamp(chars) ==
    /\ Len(chars) = 23
    /\ \A i \in 1..23 :
          CASE i \in {5, 8} -> chars[i] = DASH
            [] i = 11 -> chars[i] = SP
            [] i \in {14, 17} -> chars[i] = COLON
            [] i = 20 -> chars[i] = DOT
            [] OTHER -> chars[i] \in ZERO..(ZERO + 9)

\* C10: an Uncompressed datagram is the 23-character timestamp, a space,
\* the level name left-justified in 5 columns, a space, "[category]", a
\* space, the message, and " key=value" for each attribute pair in the
\* order the source hands them over; nothing for no attributes.
C10_TextLayout ==
    LastCallSent(Uncompressed) =>
        LET payload == call.out.sends[1].payload
        IN /\ Len(payload) >= 23
           /\ IsTimestamp(SubSeq(payload, 1, 23))
           /\ Utf8Decode(SubSeq(payload, 24, Len(payload)))
                = <<SP>> \o LevelField(call.record.level) \o <<SP>> \o LastCallText
           /\ call.record.key_values = NoKvs =>
                 Utf8Decode(SubSeq(payload, 24, Len(payload)))
                    = <<SP>> \o LevelField(call.record.level) \o <<SP, LBRACKET>>
                      \o LastCallCategory \o <<RBRACKET, SP>> \o call.record.args

\* An Info record "x" of test with the pairs key1=Value1, Key2=Value2 in a
\* Vec, logged 1628534510 ms after the epoch.
C10_Witness ==
    /\ LastCallSent(Uncompressed)
    /\ call.record.key_values = TestKvs
    /\ Utf8Decode(call.out.sends[1].payload)
         = <<49, 57, 55, 48, 45, 48, 49, 45, 49, 57, 32, 50, 48, 58, 50, 50, 58,
             49, 52, 46, 53, 49, 48,
             32, 73, 78, 70, 79, 32, 32, 91, 116, 101, 115, 116, 93, 32, 120,
             32, 107, 101, 121, 49, 61, 86, 97, 108, 117, 101, 49,
             32, 75, 101, 121, 50, 61, 86, 97, 108, 117, 101, 50>>

-----------------------------------------------------------------------------
(* Adding a tier (C11), under SpecTiers.                                   *)

Thresholds(tiers) == {tiers[i][1] : i \in DOMAIN tiers}

\* The lowest threshold of a list that has tiers.
MinThreshold(tiers) ==
    CHOOSE m \in Thresholds(tiers) : \A t \in Thresholds(tiers) : m <= t

\* The step is a builder call that adds one tier to the list.
TierAdded(before, after) ==
    /\ before # <<>>
    /\ Len(after) = Len(before) + 1
    /\ SubSeq(after, 1, Len(before)) = before

\* The level of the tier the step added.
AddedThreshold(after) == after[Len(after)][1]

\* The levels strictly more severe than the lowest threshold of the list.
SevererThanAll(tiers) == {level \in Levels : level < MinThreshold(tiers)}

\* The sink made of the builder before the step and the one made of the
\* builder after it pick the same socket, or the same address, for the level.
SameSource(c, level) ==
    select_source(partial_init(logger'[c]), level)
        = select_source(partial_init(logger[c]), level)

SameDestination(c, level) ==
    select_destination(partial_init(logger'[c]), level)
        = select_destination(partial_init(logger[c]), level)

\* C11 as stated: whatever tier is added to a list, every level strictly
\* more severe than the lowest threshold the list had is routed as before.
C11_AnyAddedTier ==
    [][\A c \in Callers :
          /\ TierAdded(logger[c].sources, logger'[c].sources) =>
                \A level \in SevererThanAll(logger[c].sources) : SameSource(c, level)
          /\ TierAdded(logger[c].destinations, logger'[c].destinations) =>
                \A level \in SevererThanAll(logger[c].destinations) :
                    SameDestination(c, level)]_vars

\* C11, amended: when the tier added to a list has a threshold that is not
\* more severe than the lowest threshold the list had, every level strictly
\* more severe than that lowest threshold is routed as before.
C11_AddedTierNotBelow ==
    [][\A c \in Callers :
          /\ (/\ TierAdded(logger[c].sources, logger'[c].sources)
              /\ AddedThreshold(logger'[c].sources)
                    >= MinThreshold(logger[c].sources)) =>
                \A level \in SevererThanAll(logger[c].sources) : SameSource(c, level)
          /\ (/\ TierAdded(logger[c].destinations, logger'[c].destinations)
              /\ AddedThreshold(logger'[c].destinations)
                    >= MinThreshold(logger[c].destinations)) =>
                \A level \in SevererThanAll(logger[c].destinations) :
                    SameDestination(c, level)]_vars

\* A second destination tier was added at Warn, the threshold of the first;
\* an Error record still went to the first tier's address.
C11_Witness ==
    /\ Installed
    /\ LOGGER.sink.destinations = <<<<Warn, ADDR_D1>>, <<Warn, ADDR_D2>>>>
    /\ call.op = "log"
    /\ call.record.level = Error
    /\ call.out.sends # <<>>
    /\ call.out.sends[1].remote_addr = ADDR_D1

-----------------------------------------------------------------------------
(* A failing attribute source (C12), under SpecWire.                       *)

\* The last call's attribute source failed before it had handed over all
\* its pairs.
LastCallVisitFailed ==
    /\ SinkReached
    /\ call.record.key_values.visits < Len(call.record.key_values.pairs)

\* The text of a datagram: what follows the 13 bytes of level, timestamp
\* and length in the ByteBuffer format, and what follows the timestamp, the
\* level field and their spaces (30 characters) in the Uncompressed one.
SentText(wire_fmt, payload) ==
    IF wire_fmt = ByteBuffer
    THEN Utf8Decode(SubSeq(payload, 14, Len(payload)))
    ELSE Utf8Decode(SubSeq(payload, 31, Len(payload)))

\* "[<category>] <message>" of the last call.
LastCallHead ==
    <<LBRACKET>> \o LastCallCategory \o <<RBRACKET, SP>> \o call.record.args

\* C12: when the attribute source fails after k pairs the log call goes on:
\* it encodes the record, hands send_to one datagram and returns, and the
\* attributes in the datagram are " key=value" for the k pairs visited
\* before the failure, in their order, and nothing else.
C12_VisitFailureSwallowed ==
    LastCallVisitFailed =>
        /\ call.out.returned
        /\ call.out.path = <<"Enabled", "Routed", "Encoded",
                             IF call.send_ok THEN "Sent" ELSE "SendFailed">>
        /\ Len(call.out.sends) = 1
        /\ nsend = 1
        /\ LET text == SentText(LOGGER.sink.wire_fmt, call.out.sends[1].payload)
               k == call.record.key_values.visits
           IN /\ Len(text) >= Len(LastCallHead)
              /\ SubSeq(text, 1, Len(LastCallHead)) = LastCallHead
              /\ SubSeq(text, Len(LastCallHead) + 1, Len(text))
                    = Rendered(SubSeq(call.record.key_values.pairs, 1, k))

\* An Error record "x" of test whose source failed after key1=Value1, at
\* the epoch, in the ByteBuffer format: the 20 bytes of
\* "[test] x key1=Value1" were sent.
C12_Witness ==
    /\ LastCallVisitFailed
    /\ call.record.key_values = FailingKvs
    /\ call.out.sends
         = <<[socket |-> ADDR_4000, remote_addr |-> ADDR_4010,
              payload |-> <<1, 0, 0, 0, 0, 0, 0, 0, 0, 0, 0, 0, 20,
                            91, 116, 101, 115, 116, 93, 32, 120,
                            32, 107, 101, 121, 49, 61, 86, 97, 108, 117, 101, 49>>]>>

-----------------------------------------------------------------------------
(* The empty category and the empty rule name (C13), under SpecFilter.     *)

HasEmptyPrefix(rules) == \E i \in DOMAIN rules : rules[i][1] = <<>>

\* The index of the rule enabled takes for the category, 0 for none.
AppliedRule(self, category) ==
    find([k \in DOMAIN self.module_levels |->
             starts_with(category, self.module_levels[k][1])])

\* C13: without a rule of the empty name the empty category gets the
\* default level; a rule of the empty name matches every category, and it
\* is the one applied to a category only when no rule with a non-empty name
\* matches that category.
C13_EmptyCategoryAndPrefix ==
    Installed =>
        LET sink == LOGGER.sink
            rules == sink.module_levels
        IN /\ ~HasEmptyPrefix(rules) => resolve(sink, <<>>) = sink.default_level
           /\ \A i \in DOMAIN rules, category \in Categories :
                 rules[i][1] = <<>> => starts_with(category, rules[i][1])
           /\ \A category \in Categories :
                 (\E j \in DOMAIN rules :
                     rules[j][1] # <<>> /\ starts_with(category, rules[j][1]))
                 => rules[AppliedRule(sink, category)][1] # <<>>

-----------------------------------------------------------------------------
(* Log calls side by side (C14), under SpecThreads.                        *)

Returned(t) == thread[t].pc = "returned"

\* The installed sink lets the record of the thread's call through.
ThreadPermitted(t) ==
    enabled(LOGGER.sink, thread[t].record.target, thread[t].record.level)

\* The threads whose call hands its datagram to send_to in this step.
SendingNow ==
    {t \in Threads : thread[t].pc = "encoded" /\ thread'[t].pc = "returned"}

\* C14: in every interleaving of the threads' log calls, a step of a call
\* changes nothing of the installed sink, of the log crate's state or of any
\* builder; a call whose record is enabled makes exactly one send_to call
\* and a call whose record is filtered out makes none; and the socket, the
\* address and the payload of that send_to are the ones the installed sink
\* gives for the record alone (at the clock reading of the call), whatever
\* the other thread does.
C14_CallsIndependent ==
    /\ [](\A t \in Threads :
            Returned(t) =>
                thread[t].out.sends
                    = IF ThreadPermitted(t)
                      THEN log_sends(LOGGER.sink, thread[t].record, thread[t].now)
                      ELSE <<>>)
    /\ [][/\ thread' # thread =>
                /\ LOGGER' = LOGGER
                /\ LOG_STATE' = LOG_STATE
                /\ MAX_LEVEL' = MAX_LEVEL
                /\ logger' = logger
          /\ nsend' = nsend + Cardinality(SendingNow)
          /\ \A t \in Threads :
                (~Returned(t) /\ Returned(t)') =>
                    (t \in SendingNow <=> ThreadPermitted(t))]_vars

\* T1's Warn record has gone out from the Warn tier's socket to the Warn
\* tier's address while T2's Debug record, routed to the defaults, is
\* encoded and not yet sent.
C14_Witness ==
    /\ Returned("T1")
    /\ thread["T1"].record.level = Warn
    /\ thread["T1"].out.sends # <<>>
    /\ thread["T1"].out.sends[1].socket = ADDR_S1
    /\ thread["T1"].out.sends[1].remote_addr = ADDR_D1
    /\ thread["T2"].pc = "encoded"
    /\ thread["T2"].record.level = Debug
    /\ thread["T2"].socket = ADDR_4000
    /\ thread["T2"].remote_addr = ADDR_4010
    /\ nsend = 1

-----------------------------------------------------------------------------
(* The maximum level of a normalized sink (C15), under Spec.               *)

\* The most verbose of the default level and the levels of the rules.
MostVerbose(self) ==
    LET levels == {self.default_level}
                  \cup {self.module_levels[i][2] : i \in DOMAIN self.module_levels}
    IN CHOOSE m \in levels : \A l \in levels : l <= m

\* The process-wide maximum level lets through every level the sink does.
CeilingCovers(sink, max_level) ==
    \A category \in Categories, level \in Levels :
        level <= resolve(sink, category) => level <= max_level

\* C15: partial_init sets the process-wide maximum level to the most
\* verbose of the default level and the rule levels, and at the moment a
\* sink has been normalized and installed that maximum lets through every
\* record the sink's filter permits.
C15_CeilingCoversFilter ==
    /\ [][\A c \in Callers :
            (pc[c] = "building" /\ pc'[c] = "normalized") =>
                MAX_LEVEL' = MostVerbose(logger[c])]_vars
    /\ [][(~Installed /\ Installed') => CeilingCovers(LOGGER'.sink, MAX_LEVEL')]_vars

-----------------------------------------------------------------------------
(* Registration order of the rules (C16), under SpecFilter.                *)

\* The level of the first rule registered under the name.
EarliestLevel(registered, name) ==
    LET same == {i \in DOMAIN registered : registered[i][1] = name}
    IN registered[CHOOSE i \in same : \A j \in same : i <= j][2]

DistinctPrefixes(rules) ==
    \A i, j \in DOMAIN rules : i # j => rules[i][1] # rules[j][1]

\* The builder with its rules registered in another order.
Reordered(self, order) ==
    [self EXCEPT !.module_levels = [i \in DOMAIN @ |-> @[order[i]]]]

\* C16: when partial_init normalizes a builder, the rule applied to a
\* category carries the level of the first rule registered under its name;
\* and when the registered names are pairwise distinct, registering the
\* same rules in any other order gives the same threshold for every
\* category, also when names have equal lengths.
C16_RegistrationOrder ==
    [][\A c \in Callers :
          (pc[c] = "building" /\ pc'[c] = "normalized") =>
              LET registered == logger[c].module_levels
                  normalized == logger'[c]
              IN \A category \in Categories :
                    /\ AppliedRule(normalized, category) # 0 =>
                          resolve(normalized, category)
                              = EarliestLevel(registered,
                                    normalized.module_levels[
                                        AppliedRule(normalized, category)][1])
                    /\ DistinctPrefixes(registered) =>
                          \A order \in Permutations(DOMAIN registered) :
                              resolve(partial_init(Reordered(logger[c], order)), category)
                                  = resolve(normalized, category)]_vars

\* The name "a" was registered at Warn and then at Trace; the installed
\* sink answered an Info query for "ab" with FALSE, by the Warn rule.
C16_Witness ==
    /\ Installed
    /\ LOGGER.sink.module_levels = <<<<S_a, Warn>>, <<S_a, Trace>>>>
    /\ call.op = "enabled"
    /\ call.target = S_ab
    /\ call.level = Info
    /\ ~call.result

-----------------------------------------------------------------------------
(* The category filtered on and the category written (C17), under          *)
(* SpecCategory.                                                           *)

\* The category in a datagram's text: what stands between "[" and the
\* first "]".
WrittenCategory(text) ==
    LET closing == {i \in DOMAIN text : text[i] = RBRACKET}
    IN SubSeq(text, 2, (CHOOSE i \in closing : \A j \in closing : i <= j) - 1)

\* The last call's record was sent.
LastCallWasSent == call.out.sends # <<>>

\* The category the last call's datagram carries.
LastCallWritten ==
    WrittenCategory(SentText(LOGGER.sink.wire_fmt, call.out.sends[1].payload))

\* C17: the category a record is filtered on is the category its datagram
\* carries; for a record with an empty category that is the module it
\* comes from, so the rules that match the module decide whether it is
\* sent.
C17_FilterOnWrittenCategory ==
    SinkReached =>
        /\ LastCallWasSent => LastCallWritten = LastCallCategory
        /\ LastCallWasSent
              <=> call.record.level <= resolve(LOGGER.sink, LastCallCategory)

=============================================================================
